---- MODULE Spec2Model ----
(***************************************************************************)
(* The create flow of the dispatcher (lib/dispatch/create.js): one create  *)
(* request run as a chain of promise handlers against a storage adapter    *)
(* whose calls succeed, fail or throw as the environment decides.          *)
(***************************************************************************)
EXTENDS Integers, Sequences, FiniteSets, TLC

\* ---------------------------------------------------------------- bounds
MaxRecords == 2   \* records in one payload / in one result of create
MaxId == 2        \* primary keys 1..MaxId exist in every linked type
MaxRequests == 2  \* calls of request() on one instance
MaxCalls == 3     \* calls of connect() and disconnect() user code makes

\* ------------------------------------------------------- keys and values
primaryKey == "id"
TargetIds == 1..MaxId
Null == 0 - 1             \* the JS value null, where a primary key may stand
NoSuchId == MaxId + 1     \* a primary key that exists in no linked type

\* Sequences over S of length at most n.
SeqUpTo(S, n) == UNION {[1..k -> S] : k \in 0..n}

\* ---------------------------------------------------------------- schema
\* recordTypes[type] of the requested type: the example of the constructor's
\* documentation (a to-many link `pets` with inverse `owner`) extended by one
\* link field of every other shape the create flow distinguishes.
fields ==
  [ name    |-> [type |-> "String"],
    pets    |-> [link |-> "animal", isArray |-> TRUE,  inverse |-> "owner"],
    groups  |-> [link |-> "group",  isArray |-> TRUE,  inverse |-> "members"],
    best    |-> [link |-> "animal", isArray |-> FALSE, inverse |-> "fans"],
    mentor  |-> [link |-> "person", isArray |-> FALSE],
    keeping |-> [link |-> "animal", isArray |-> TRUE,  inverse |-> "keeper",
                 denormalizedInverse |-> TRUE] ]

\* recordTypes[linkedType][inverseField][isArrayKey]
linkedIsArrayOf(linkedType, inverseField) ==
  CASE linkedType = "animal" /\ inverseField = "owner"   -> FALSE
    [] linkedType = "animal" /\ inverseField = "fans"    -> TRUE
    [] linkedType = "animal" /\ inverseField = "keeper"  -> FALSE
    [] linkedType = "group"  /\ inverseField = "members" -> TRUE
    [] OTHER -> FALSE

\* The order in which `for (field in fields)` visits the fields.
fieldOrder == <<"name", "pets", "groups", "best", "mentor", "keeping">>

Has(r, f) == f \in DOMAIN r
HasKey(def, k) == k \in DOMAIN def

\* The record r without field f (`delete record[field]`).
Without(r, f) == [g \in (DOMAIN r) \ {f} |-> r[g]]

\* links: the link fields, in the order the first handler pushes them.
RECURSIVE LinksFrom(_)
LinksFrom(i) ==
  IF i > Len(fieldOrder) THEN <<>>
  ELSE (IF HasKey(fields[fieldOrder[i]], "link") THEN <<fieldOrder[i]>> ELSE <<>>)
       \o LinksFrom(i + 1)
links == LinksFrom(1)

\* The denormalized inverse fields of the type.
DenormFields == {f \in DOMAIN fields : HasKey(fields[f], "denormalizedInverse")}

\* One record with every denormalized inverse field deleted.
StripRecord(r) == [g \in (DOMAIN r) \ DenormFields |-> r[g]]

\* The payload after the loop that deletes denormalized inverse fields.
StripDenormalized(recs) == [i \in 1..Len(recs) |-> StripRecord(recs[i])]

\* ------------------------------------------------- update helpers
\* An update operation on the record `id` of a linked type: per inverse field
\* either a key to replace it with or a list of keys to add to it.
NewUpdate(id) == [id |-> id, replace |-> <<>>, push |-> <<>>]

\* The index in ops of the operation for id, 0 if there is none.
IndexOfUpdate(ops, id) ==
  IF \E i \in 1..Len(ops) : ops[i].id = id
  THEN CHOOSE i \in 1..Len(ops) : ops[i].id = id
  ELSE 0

\* getUpdate(type, id, updates, cache): look the operation for (type, id) up,
\* or create it at the end of updates[type]. Gives the new updates and the
\* index of the operation in updates[type].
getUpdate(type, id, upd) ==
  LET ops == IF type \in DOMAIN upd THEN upd[type] ELSE <<>>
      at == IndexOfUpdate(ops, id)
  IN IF at # 0
     THEN [updates |-> upd, at |-> at]
     ELSE [updates |-> (type :> Append(ops, NewUpdate(id))) @@ upd,
           at |-> Len(ops) + 1]

\* addId(id, update, field, isArray): add the key to the list of an array
\* inverse field, or set a singular inverse field to it.
addId(id, update, field, isArray) ==
  IF isArray
  THEN [update EXCEPT !.push =
          (field :> Append(IF field \in DOMAIN update.push
                           THEN update.push[field] ELSE <<>>, id)) @@ @]
  ELSE [update EXCEPT !.replace = (field :> id) @@ @]

\* ------------------------------------------------- update batching loop
\* Array.isArray(record[field]) ? record[field] : [ record[field] ]; a link
\* value is an array exactly when its field is declared isArray (enforced
\* before the write).
LinkedIds(record, field) ==
  IF fields[field].isArray THEN record[field] ELSE <<record[field]>>

\* The loop over the linked ids with every inverse field taken for an array.
RECURSIVE ForLinkedIdsAllArrays(_, _, _, _, _, _, _)
ForLinkedIdsAllArrays(k, linkedIds, pk, linkedType, inverseField, linkedIsArray, upd) ==
  IF k = 0 THEN upd
  ELSE LET id == linkedIds[k]
           got == getUpdate(linkedType, id, upd)
           ops == got.updates[linkedType]
           next == IF id # Null
                   THEN (linkedType :>
                           [ops EXCEPT ![got.at] =
                              addId(pk, ops[got.at], inverseField, TRUE)])
                        @@ got.updates
                   ELSE upd
       IN ForLinkedIdsAllArrays(k - 1, linkedIds, pk, linkedType, inverseField,
                                linkedIsArray, next)

\* for (k = linkedIds.length; k--;): one addId per non-null id, last id first.
RECURSIVE ForLinkedIds(_, _, _, _, _, _, _)
ForLinkedIds(k, linkedIds, pk, linkedType, inverseField, linkedIsArray, upd) ==
  IF k = 0 THEN upd
  ELSE LET id == linkedIds[k]
           got == getUpdate(linkedType, id, upd)
           ops == got.updates[linkedType]
           next == IF id # Null
                   THEN (linkedType :>
                           [ops EXCEPT ![got.at] =
                              addId(pk, ops[got.at], inverseField, linkedIsArray)])
                        @@ got.updates
                   ELSE upd
       IN ForLinkedIds(k - 1, linkedIds, pk, linkedType, inverseField,
                       linkedIsArray, next)

\* for (j = links.length; j--;): the link fields of one created record.
RECURSIVE ForLinks(_, _, _)
ForLinks(j, record, upd) ==
  IF j = 0 THEN upd
  ELSE LET field == links[j]
       IN IF ~Has(record, field) \/ ~HasKey(fields[field], "inverse")
          THEN ForLinks(j - 1, record, upd)
          ELSE LET inverseField == fields[field].inverse
                   linkedType == fields[field].link
                   linkedIsArray == linkedIsArrayOf(linkedType, inverseField)
                   linkedIds == LinkedIds(record, field)
                   \* if (!updates[linkedType]) updates[linkedType] = []
                   init == IF linkedType \in DOMAIN upd THEN upd
                           ELSE (linkedType :> <<>>) @@ upd
               IN ForLinks(j - 1, record,
                    ForLinkedIds(Len(linkedIds), linkedIds, record[primaryKey],
                                 linkedType, inverseField, linkedIsArray, init))

\* The loop over the created records run from the first record to the last.
RECURSIVE ForRecordsAscending(_, _, _)
ForRecordsAscending(i, recs, upd) ==
  IF i = 0 THEN [ok |-> TRUE, updates |-> upd]
  ELSE LET at == Len(recs) - i + 1
       IN IF ~Has(recs[at], primaryKey) THEN [ok |-> FALSE, updates |-> upd]
          ELSE ForRecordsAscending(i - 1, recs, ForLinks(Len(links), recs[at], upd))

\* for (i = records.length; i--;): every created record, last record first.
\* A record without a primary key stops the loop with an error; `updates`
\* keeps what the records visited before it put there.
RECURSIVE ForRecords(_, _, _)
ForRecords(i, recs, upd) ==
  IF i = 0 THEN [ok |-> TRUE, updates |-> upd]
  ELSE IF ~Has(recs[i], primaryKey) THEN [ok |-> FALSE, updates |-> upd]
  ELSE ForRecords(i - 1, recs, ForLinks(Len(links), recs[i], upd))

BuildUpdates(recs) == ForRecords(Len(recs), recs, <<>>)

\* Every type `updates` has a list for, with operations or without.
TypesWithList(upd) == DOMAIN upd

\* The types for which the update stage calls transaction.update.
TypesToUpdate(upd) == {t \in DOMAIN upd : Len(upd[t]) > 0}

\* ---------------------------------------------------------------- errors
Err(cls, msg, at) == [cls |-> cls, msg |-> msg, at |-> at]
NoError == Err("none", "none", 0)

CreateRecordsInvalid == Err("BadRequestError", "CreateRecordsInvalid", 0)
CreateRecordsFail == Err("BadRequestError", "CreateRecordsFail", 0)
CreateRecordMissingID == Err("Error", "CreateRecordMissingID", 0)
\* `records.length` of a result that is undefined
LengthOfUndefined == Err("TypeError", "length of undefined", 0)
\* what the adapter's calls, the hooks and the listeners fail with
AdapterError(call) == Err("AdapterError", call, 0)
AbortError == Err("AdapterError", "endTransaction(error)", 0)
TransformError(i) == Err("TransformError", "transform", i)
ListenerError == Err("ListenerError", "change listener", 0)
\* what enforce, checkLinks and validateRecords fail with
EnforceError(i) == Err("ValidationError", "enforce", i)
InvalidLinkError(i) == Err("InvalidLinkError", "checkLinks", i)
ValidateRecordsError == Err("ValidationError", "validateRecords", 0)

\* ----------------------------------------------------------------- state
VARIABLES
  hasTransform,  \* typeof transform[0] === 'function'
  enforceLinks,  \* options.settings.enforceLinks
  pc,            \* the handler of the chain that runs or waits next
  records,       \* the closure variable `records`
  nInput,        \* length of the payload the request came with (-1: none)
  results,       \* what the transforms resolved with so far
  transaction,   \* TRUE once `transaction` holds the adapter's transaction
  tstat,         \* per record: its transform call
  lstat,         \* per record: its checkLinks call
  beginCalls,    \* calls of adapter.beginTransaction
  createCalls,   \* calls of transaction.create
  createStat,    \* the call of transaction.create
  response,      \* context.response.records
  updates,       \* the closure variable `updates`
  ustat,         \* per linked type: its transaction.update call
  commitCalls,   \* calls of transaction.endTransaction()
  commitStat,    \* the committing call
  abortCalls,    \* calls of transaction.endTransaction(error)
  abortArg,      \* the error the aborting call got
  abortStat,     \* the aborting call
  events,        \* the change events emitted
  outcome,       \* the promise the request returned
  reason,        \* what it rejected with
  trigger,       \* the error the catch handler caught
  connectionStatus,  \* self.connectionStatus
  typesOk,       \* ensureTypes(self.recordTypes) does not throw
  adapterCalls,  \* the calls of adapter.connect and adapter.disconnect in flight
  req,           \* per call of request(): where it stands
  calls,         \* calls of connect() and disconnect() made by user code
  emits,         \* connect, disconnect and failure events emitted
  lastCall       \* the last of these calls, and whether it rejected at once

vars == <<hasTransform, enforceLinks, pc, records, nInput, results, transaction,
          tstat, lstat, beginCalls, createCalls, createStat, response, updates,
          ustat, commitCalls, commitStat, abortCalls, abortArg, abortStat, events,
          outcome, reason, trigger, connectionStatus, typesOk, adapterCalls,
          req, calls, emits, lastCall>>

\* The instance: its connection, which a dispatch leaves alone.
instance == <<connectionStatus, typesOk, adapterCalls, req, calls, emits, lastCall>>

\* 0 = not started, 1 = started, 2 = done.
NotStarted == 0
Started == 1
Done == 2

config == <<hasTransform, enforceLinks, instance>>
abortVars == <<abortCalls, abortArg, abortStat>>
endVars == <<pc, outcome, reason, trigger, abortCalls, abortArg, abortStat>>

\* A value for a variable that holds no records (undefined).
Undefined == <<>>

\* The closure variables of a create request that has not run yet.
NoRequestYet ==
  /\ pc = "request"
  /\ records = Undefined
  /\ nInput = 0
  /\ results = <<>>
  /\ transaction = FALSE
  /\ tstat = <<>>
  /\ lstat = <<>>
  /\ beginCalls = 0
  /\ createCalls = 0
  /\ createStat = "none"
  /\ response = Undefined
  /\ updates = <<>>
  /\ ustat = <<>>
  /\ commitCalls = 0
  /\ commitStat = "none"
  /\ abortCalls = 0
  /\ abortArg = NoError
  /\ abortStat = "none"
  /\ events = <<>>
  /\ outcome = "pending"
  /\ reason = NoError
  /\ trigger = NoError

\* A create request is dispatched on an instance that is connected, with no
\* call of connect or disconnect in progress.
Init ==
  /\ hasTransform \in BOOLEAN
  /\ enforceLinks \in BOOLEAN
  /\ NoRequestYet
  /\ connectionStatus = Done
  /\ typesOk = TRUE
  /\ adapterCalls = <<>>
  /\ req = <<>>
  /\ calls = 0
  /\ emits = 0
  /\ lastCall = <<>>

\* ------------------------------------------------------- the catch handler
\* .catch(function (error) { if (transaction) transaction.endTransaction(error)
\* throw error }): the aborting call either throws, and its error leaves the
\* handler, or returns a promise nobody waits for, and `error` is thrown again.
\* The catch handler without its call of endTransaction.
CatchWithoutAbort(tx, error) ==
  /\ pc' = "done"
  /\ trigger' = error
  /\ outcome' = "rejected"
  /\ reason' = error
  /\ UNCHANGED abortVars

\* The catch handler without its `throw error`: the chain goes on.
CatchWithoutThrow(tx, error) ==
  /\ pc' = "emit"
  /\ trigger' = error
  /\ UNCHANGED <<outcome, reason>>
  /\ IF tx
     THEN /\ abortCalls' = abortCalls + 1
          /\ abortArg' = error
          /\ abortStat' = "pending"
     ELSE UNCHANGED abortVars

\* tx is the value of `transaction` when the handler runs.
Catch(tx, error) ==
  /\ pc' = "done"
  /\ trigger' = error
  /\ outcome' = "rejected"
  /\ IF tx
     THEN /\ abortCalls' = abortCalls + 1
          /\ abortArg' = error
          /\ \E threw \in BOOLEAN :
               /\ abortStat' = IF threw THEN "threw" ELSE "pending"
               /\ reason' = IF threw THEN AbortError ELSE error
     ELSE /\ UNCHANGED abortVars
          /\ reason' = error

\* The aborting call's promise settles; nobody handles it.
AbortSettles ==
  /\ abortStat = "pending"
  /\ abortStat' \in {"ok", "failed"}
  /\ UNCHANGED <<config, pc, records, nInput, results, transaction, tstat, lstat,
                 beginCalls, createCalls, createStat, response, updates, ustat, commitCalls,
                 commitStat, abortCalls, abortArg, events, outcome, reason,
                 trigger>>

\* The chain goes on to its next handler.
Continue(next) ==
  /\ pc' = next
  /\ UNCHANGED <<outcome, reason, trigger, abortCalls, abortArg, abortStat>>

AllOk(stat) == \A i \in DOMAIN stat : stat[i] = "ok"

\* ------------------------------------------------------------- the inputs
\* The records a payload is made of: a well-typed one, an ill-typed one, one
\* that brings a denormalized inverse field, one with a link to an existing
\* record and one with a link to a record that does not exist.
InputRecords ==
  { ("name" :> "str"),
    ("name" :> "num"),
    ("name" :> "str") @@ ("keeping" :> <<1>>),
    ("name" :> "str") @@ ("pets" :> <<1>>),
    ("name" :> "str") @@ ("pets" :> <<NoSuchId>>) }

\* context.request.payload: absent, or a list of records.
Payloads ==
  {[present |-> FALSE, recs |-> Undefined]} \cup
  {[present |-> TRUE, recs |-> r] : r \in SeqUpTo(InputRecords, MaxRecords)}

\* What an input transform may resolve with: the record, or the record with
\* the denormalized inverse field put (back) on it.
TransformResults(r) == {r, ("keeping" :> <<1>>) @@ r}

\* The link values of the records transaction.create may return.
LinkShapes ==
  { <<>>,
    ("pets" :> <<1>>),
    ("groups" :> <<1>>),
    ("groups" :> <<1, 1>>),
    ("groups" :> <<1, MaxId>>),
    ("best" :> Null),
    ("best" :> MaxId),
    ("pets" :> <<1>>) @@ ("groups" :> <<MaxId>>) @@ ("best" :> 1)
      @@ ("mentor" :> 1) }

\* The primary key the adapter assigns to the i-th record it returns.
AssignedId(i) == NoSuchId + i

\* What transaction.create may resolve with: nothing, or up to MaxRecords
\* records, each with its primary key, or all but one of them with it.
CreateResults ==
  {[present |-> FALSE, recs |-> Undefined]} \cup
  { [present |-> TRUE,
     recs |-> [i \in 1..Len(shapes) |->
                 IF i \in without THEN shapes[i]
                 ELSE (primaryKey :> AssignedId(i)) @@ shapes[i]]] :
    shapes \in SeqUpTo(LinkShapes, MaxRecords),
    without \in {{}} \cup {{i} : i \in 1..MaxRecords} }

\* ----------------------------------------------------------- the handlers
\* The payload check without its test of the length.
PayloadInvalidUnlessPresent(p) == ~p.present

\* if (!records || !records.length)
PayloadInvalid(p) == ~p.present \/ Len(p.recs) = 0

\* The first handler: check the payload, collect the link fields, delete the
\* denormalized inverse fields, call adapter.beginTransaction.
Request(p) ==
  /\ pc = "request"
  /\ nInput' = IF p.present THEN Len(p.recs) ELSE 0 - 1
  /\ IF PayloadInvalid(p)
     THEN /\ records' = p.recs
          /\ Catch(transaction, CreateRecordsInvalid)
          /\ UNCHANGED beginCalls
     ELSE /\ records' = StripDenormalized(p.recs)
          /\ beginCalls' = beginCalls + 1
          /\ Continue("begin")
  /\ UNCHANGED <<config, results, transaction, tstat, lstat, createCalls, createStat,
                 response, updates, ustat, commitCalls, commitStat, events>>

\* beginTransaction settles. The second handler keeps the transaction and
\* calls the input transform for every record, in order; a call that throws
\* ends the handler.
BeginSettles ==
  /\ pc = "begin"
  /\ \/ /\ Catch(transaction, AdapterError("beginTransaction"))
        /\ UNCHANGED <<transaction, tstat, results>>
     \/ /\ transaction' = TRUE
        /\ IF hasTransform
           THEN \E k \in 0..Len(records) :
                  /\ tstat' = [i \in 1..Len(records) |->
                                 IF i <= k THEN "pending" ELSE "none"]
                  /\ results' = records
                  /\ IF k < Len(records)
                     THEN Catch(TRUE, TransformError(k + 1))
                     ELSE Continue("transform")
           ELSE /\ Continue("check")
                /\ UNCHANGED <<tstat, results>>
  /\ UNCHANGED <<config, records, nInput, lstat, beginCalls, createCalls, createStat,
                 response, updates, ustat, commitCalls, commitStat, events>>

\* The transform of record i settles; Promise.all resolves with the last one
\* and rejects with the first one that fails.
TransformSettles(i) ==
  /\ i \in DOMAIN tstat
  /\ tstat[i] = "pending"
  /\ \/ /\ tstat' = [tstat EXCEPT ![i] = "ok"]
        /\ IF pc = "transform"
           THEN /\ \E r \in TransformResults(records[i]) :
                     results' = [results EXCEPT ![i] = r]
                /\ IF AllOk(tstat') THEN Continue("check")
                   ELSE UNCHANGED endVars
           ELSE UNCHANGED <<results, endVars>>
     \/ /\ tstat' = [tstat EXCEPT ![i] = "failed"]
        /\ UNCHANGED results
        /\ IF pc = "transform" THEN Catch(transaction, TransformError(i))
           ELSE UNCHANGED endVars
  /\ UNCHANGED <<config, records, nInput, transaction, lstat, beginCalls,
                 createCalls, createStat, response, updates, ustat, commitCalls, commitStat,
                 events>>

\* enforce(type, record, fields, meta): the value of a field has the type its
\* definition declares.
EnforceOk(r) == Has(r, "name") => r["name"] = "str"

\* The index of the first record enforce throws for, 0 if it throws for none.
FirstNotEnforced(recs) ==
  IF \E i \in 1..Len(recs) : ~EnforceOk(recs[i])
  THEN CHOOSE i \in 1..Len(recs) :
         /\ ~EnforceOk(recs[i])
         /\ \A j \in 1..(i - 1) : EnforceOk(recs[j])
  ELSE 0

\* The primary keys a record's link fields hold.
LinkValues(r) ==
  UNION {{LinkedIds(r, links[j])[k] : k \in 1..Len(LinkedIds(r, links[j]))} :
         j \in {j \in 1..Len(links) : Has(r, links[j])}}

\* A primary key the record links to that exists in no linked type.
HasDanglingLink(r) == \E id \in LinkValues(r) : id # Null /\ id \notin TargetIds

\* checkLinks(record, fields, links, meta): with enforceLinks, every key a
\* link field holds is the key of an existing record of the linked type.
CheckLinksOk(r) == enforceLinks => ~HasDanglingLink(r)

\* The third handler: the transforms' results become `records`; then, record
\* by record, enforce (which throws) and checkLinks (which returns a promise).
CheckHandler ==
  /\ pc = "check"
  /\ LET recs == IF hasTransform THEN results ELSE records
         bad == FirstNotEnforced(recs)
     IN /\ records' = recs
        /\ results' = <<>>
        /\ lstat' = [i \in 1..Len(recs) |->
                       IF bad = 0 \/ i < bad THEN "pending" ELSE "none"]
        /\ IF bad # 0 THEN Catch(transaction, EnforceError(bad))
           ELSE Continue("checking")
  /\ UNCHANGED <<config, nInput, transaction, tstat, beginCalls, createCalls, createStat,
                 response, updates, ustat, commitCalls, commitStat, events>>

\* checkLinks of record i settles, and its rejection is taken for success.
LinkCheckSettlesUnchecked(i) ==
  /\ i \in DOMAIN lstat
  /\ lstat[i] = "pending"
  /\ lstat' = [lstat EXCEPT ![i] = "ok"]
  /\ IF pc = "checking" /\ AllOk(lstat') THEN Continue("validate")
     ELSE UNCHANGED endVars
  /\ UNCHANGED <<config, records, nInput, results, transaction, tstat,
                 beginCalls, createCalls, createStat, response, updates, ustat,
                 commitCalls, commitStat, events>>

\* checkLinks of record i settles.
LinkCheckSettles(i) ==
  /\ i \in DOMAIN lstat
  /\ lstat[i] = "pending"
  /\ IF CheckLinksOk(records[i])
     THEN /\ lstat' = [lstat EXCEPT ![i] = "ok"]
          /\ IF pc = "checking" /\ AllOk(lstat') THEN Continue("validate")
             ELSE UNCHANGED endVars
     ELSE /\ lstat' = [lstat EXCEPT ![i] = "failed"]
          /\ IF pc = "checking" THEN Catch(transaction, InvalidLinkError(i))
             ELSE UNCHANGED endVars
  /\ UNCHANGED <<config, records, nInput, results, transaction, tstat,
                 beginCalls, createCalls, createStat, response, updates, ustat, commitCalls,
                 commitStat, events>>

\* The fourth handler with transaction.create called before validateRecords.
CreateHandlerCreateFirst ==
  /\ pc = "validate"
  /\ createCalls' = createCalls + 1
  /\ createStat' = "pending"
  /\ \E passes \in BOOLEAN :
       IF passes THEN Continue("create")
       ELSE Catch(transaction, ValidateRecordsError)
  /\ UNCHANGED <<config, records, nInput, results, transaction, tstat, lstat,
                 beginCalls, response, updates, ustat, commitCalls, commitStat,
                 events>>

\* The fourth handler: validateRecords, which passes or throws, then
\* transaction.create.
CreateHandler ==
  /\ pc = "validate"
  /\ \E passes \in BOOLEAN :
       IF passes
       THEN /\ createCalls' = createCalls + 1
            /\ createStat' = "pending"
            /\ Continue("create")
       ELSE /\ UNCHANGED <<createCalls, createStat>>
            /\ Catch(transaction, ValidateRecordsError)
  /\ UNCHANGED <<config, records, nInput, results, transaction, tstat, lstat,
                 beginCalls, response, updates, ustat, commitCalls, commitStat,
                 events>>

\* The fifth handler, given what transaction.create resolved with: keep the
\* records, refuse an empty result, build the updates of the linked records
\* and call transaction.update for every type that has some.
CreatedHandler(res) ==
  /\ records' = res.recs
  /\ response' = res.recs
  /\ IF ~res.present THEN
       /\ Catch(transaction, LengthOfUndefined)
       /\ UNCHANGED <<updates, ustat>>
     ELSE IF Len(res.recs) = 0 THEN
       /\ Catch(transaction, CreateRecordsFail)
       /\ UNCHANGED <<updates, ustat>>
     ELSE LET built == BuildUpdates(res.recs)
          IN /\ updates' = built.updates
             /\ IF ~built.ok THEN
                  /\ Catch(transaction, CreateRecordMissingID)
                  /\ UNCHANGED ustat
                ELSE
                  /\ ustat' = [t \in TypesToUpdate(built.updates) |-> "pending"]
                  /\ IF TypesToUpdate(built.updates) = {}
                     THEN Continue("commit") ELSE Continue("update")

\* transaction.create settles.
CreateSettles ==
  /\ pc = "create"
  /\ \/ /\ createStat' = "failed"
        /\ Catch(transaction, AdapterError("create"))
        /\ UNCHANGED <<records, response, updates, ustat>>
     \/ /\ createStat' = "ok"
        /\ \E res \in CreateResults : CreatedHandler(res)
  /\ UNCHANGED <<config, nInput, results, transaction, tstat, lstat, beginCalls,
                 createCalls, commitCalls, commitStat, events>>

\* transaction.update of type t settles.
UpdateSettles(t) ==
  /\ t \in DOMAIN ustat
  /\ ustat[t] = "pending"
  /\ \/ /\ ustat' = [ustat EXCEPT ![t] = "ok"]
        /\ IF pc = "update" /\ AllOk(ustat') THEN Continue("commit")
           ELSE UNCHANGED endVars
     \/ /\ ustat' = [ustat EXCEPT ![t] = "failed"]
        /\ IF pc = "update" THEN Catch(transaction, AdapterError("update"))
           ELSE UNCHANGED endVars
  /\ UNCHANGED <<config, records, nInput, results, transaction, tstat, lstat,
                 beginCalls, createCalls, createStat, response, updates, commitCalls,
                 commitStat, events>>

\* The sixth handler: transaction.endTransaction().
CommitHandler ==
  /\ pc = "commit"
  /\ commitCalls' = commitCalls + 1
  /\ commitStat' = "pending"
  /\ Continue("committing")
  /\ UNCHANGED <<config, records, nInput, results, transaction, tstat, lstat,
                 beginCalls, createCalls, createStat, response, updates, ustat, events>>

\* The committing call settles; its failure goes to the catch handler.
CommitSettles ==
  /\ pc = "committing"
  /\ \/ /\ commitStat' = "ok"
        /\ Continue("emit")
     \/ /\ commitStat' = "failed"
        /\ Catch(transaction, AdapterError("endTransaction"))
  /\ UNCHANGED <<config, records, nInput, results, transaction, tstat, lstat,
                 beginCalls, createCalls, createStat, response, updates, ustat, commitCalls,
                 events>>

\* The data of the change event: the created records under their type, and
\* under `update` the operations of every linked type that has some.
EventData(recs, upd) ==
  ("create" :> ("person" :> recs)) @@
  (IF TypesToUpdate(upd) = {} THEN <<>>
   ELSE ("update" :> [t \in TypesToUpdate(upd) |-> upd[t]]))

\* The last handler: emit the change event; a listener that throws makes the
\* handler throw.
EmitHandler ==
  /\ pc = "emit"
  /\ pc' = "done"
  /\ events' = Append(events, EventData(records, updates))
  /\ \E threw \in BOOLEAN :
       /\ outcome' = IF threw THEN "rejected" ELSE "fulfilled"
       /\ reason' = IF threw THEN ListenerError ELSE reason
  /\ UNCHANGED <<config, records, nInput, results, transaction, tstat, lstat,
                 beginCalls, createCalls, createStat, response, updates, ustat, commitCalls,
                 commitStat, abortCalls, abortArg, abortStat, trigger>>

Next ==
  \/ \E p \in Payloads : Request(p)
  \/ BeginSettles
  \/ \E i \in 1..MaxRecords : TransformSettles(i)
  \/ CheckHandler
  \/ \E i \in 1..MaxRecords : LinkCheckSettles(i)
  \/ CreateHandler
  \/ CreateSettles
  \/ \E t \in {"animal", "group"} : UpdateSettles(t)
  \/ CommitHandler
  \/ CommitSettles
  \/ EmitHandler
  \/ AbortSettles

Spec == Init /\ [][Next]_vars

\* The variables of the chain of one create request.
dispatchVars ==
  <<hasTransform, enforceLinks, pc, records, nInput, results, transaction,
    tstat, lstat, beginCalls, createCalls, createStat, response, updates,
    ustat, commitCalls, commitStat, abortCalls, abortArg, abortStat, events,
    outcome, reason, trigger>>

\* ================================================ the instance's connection
\* Fortune.prototype.request, connect and disconnect: the calls user code
\* makes on one instance, the calls of the adapter they start and the promise
\* reactions and event listeners these wake, in any order the event loop can
\* run them. What dispatch does with a request is the chain above; here a
\* request is followed up to the start of its dispatch.
Requests == 1..MaxRequests

\* Who called connect(): a request, or user code.
UserCode == MaxRequests + 1

\* A request() call: where it stands, the listeners it has registered with
\* `once`, what became of its promise and the connectionStatus its dispatch
\* started under (Null: not started).
NewRequest ==
  [at |-> "new", onConnect |-> FALSE, onFailure |-> FALSE,
   outcome |-> "pending", dispatchedAt |-> Null]

NoCall == [op |-> "none", rejected |-> FALSE]

\* The instance after its construction; ensureTypes throws for its record
\* types or does not.
InitConn ==
  /\ hasTransform = FALSE
  /\ enforceLinks = TRUE
  /\ NoRequestYet
  /\ connectionStatus = NotStarted
  /\ typesOk \in BOOLEAN
  /\ adapterCalls = <<>>
  /\ req = [r \in Requests |-> NewRequest]
  /\ calls = 0
  /\ emits = 0
  /\ lastCall = NoCall

\* dispatch(self, options) starts for request r.
Dispatched(rq, status) ==
  [rq EXCEPT !.outcome = IF @ = "pending" THEN "dispatched" ELSE @,
             !.dispatchedAt = status]

\* self.emit(events.connect): every listener a waiting request registered for
\* this event runs once and starts the dispatch of its request.
EmitConnect(reqs, status) ==
  [r \in Requests |->
     IF reqs[r].onConnect
     THEN Dispatched([reqs[r] EXCEPT !.onConnect = FALSE], status)
     ELSE reqs[r]]

\* self.emit(events.failure): every listener a waiting request registered for
\* this event runs once and rejects the promise of its request.
EmitFailure(reqs) ==
  [r \in Requests |->
     IF reqs[r].onFailure
     THEN [reqs[r] EXCEPT !.onFailure = FALSE,
                          !.outcome = IF @ = "pending" THEN "failed" ELSE @]
     ELSE reqs[r]]

\* connect() rejects: at once, or because ensureTypes throws in the executor.
ConnectRejects == connectionStatus # NotStarted \/ ~typesOk

\* connect() without its tests of connectionStatus.
ConnectUnguarded(by) ==
  /\ connectionStatus' = Started
  /\ adapterCalls' = IF typesOk
                     THEN Append(adapterCalls, [op |-> "connect", by |-> by])
                     ELSE adapterCalls

\* Fortune.prototype.connect up to the call of adapter.connect.
Connect(by) ==
  IF connectionStatus = Started \/ connectionStatus = Done
  THEN UNCHANGED <<connectionStatus, adapterCalls>>
  ELSE /\ connectionStatus' = Started
       /\ adapterCalls' = IF typesOk
                          THEN Append(adapterCalls, [op |-> "connect", by |-> by])
                          ELSE adapterCalls

\* Fortune.prototype.disconnect up to the call of adapter.disconnect.
Disconnect(by) ==
  IF connectionStatus # Done
  THEN UNCHANGED <<connectionStatus, adapterCalls>>
  ELSE /\ connectionStatus' = Started
       /\ adapterCalls' = Append(adapterCalls, [op |-> "disconnect", by |-> by])

\* User code calls connect().
ConnectCall ==
  /\ calls < MaxCalls
  /\ calls' = calls + 1
  /\ lastCall' = [op |-> "connect", rejected |-> ConnectRejects]
  /\ Connect(UserCode)
  /\ UNCHANGED <<dispatchVars, typesOk, req, emits>>

\* User code calls disconnect().
DisconnectCall ==
  /\ calls < MaxCalls
  /\ calls' = calls + 1
  /\ lastCall' = [op |-> "disconnect", rejected |-> connectionStatus # Done]
  /\ Disconnect(UserCode)
  /\ UNCHANGED <<dispatchVars, typesOk, req, emits>>

\* User code calls request(): connect first, wait for the connection that is
\* in progress, or dispatch at once.
RequestCall(r) ==
  /\ req[r].at = "new"
  /\ IF connectionStatus = NotStarted
     THEN /\ Connect(r)
          /\ req' = [req EXCEPT ![r].at = IF typesOk THEN "connect" ELSE "end",
                                ![r].outcome = IF typesOk THEN "pending" ELSE "error"]
     ELSE IF connectionStatus = Started
     THEN /\ req' = [req EXCEPT ![r].at = "wait", ![r].onFailure = TRUE,
                                ![r].onConnect = TRUE]
          /\ UNCHANGED <<connectionStatus, adapterCalls>>
     ELSE /\ req' = [req EXCEPT ![r] = Dispatched([@ EXCEPT !.at = "end"],
                                                   connectionStatus)]
          /\ UNCHANGED <<connectionStatus, adapterCalls>>
  /\ UNCHANGED <<dispatchVars, typesOk, calls, emits, lastCall>>

\* The list without its k-th element.
Remove(s, k) == [i \in 1..(Len(s) - 1) |-> IF i < k THEN s[i] ELSE s[i + 1]]

\* The promise of connect() that request `by` waits for resolves or rejects.
Resolved(reqs, by) ==
  IF by \in Requests THEN [reqs EXCEPT ![by].at = "then"] ELSE reqs
Rejected(reqs, by) ==
  IF by \in Requests
  THEN [reqs EXCEPT ![by].at = "end", ![by].outcome = "error"]
  ELSE reqs

\* A call of adapter.connect or adapter.disconnect settles: the handler sets
\* connectionStatus, emits its event and settles the promise of the caller.
AdapterSettles(k) ==
  /\ k \in DOMAIN adapterCalls
  /\ adapterCalls' = Remove(adapterCalls, k)
  /\ emits' = emits + 1
  /\ \E ok \in BOOLEAN :
       LET call == adapterCalls[k]
       IN IF call.op = "connect"
          THEN IF ok
               THEN /\ connectionStatus' = Done
                    /\ req' = Resolved(EmitConnect(req, Done), call.by)
               ELSE /\ connectionStatus' = NotStarted
                    /\ req' = Rejected(EmitFailure(req), call.by)
          ELSE IF ok
               THEN /\ connectionStatus' = NotStarted
                    /\ UNCHANGED req
               ELSE /\ connectionStatus' = Done
                    /\ req' = EmitFailure(req)
  /\ UNCHANGED <<dispatchVars, typesOk, calls, lastCall>>

\* The reaction request r put on the promise of connect() runs.
ThenDispatch(r) ==
  /\ req[r].at = "then"
  /\ req' = [req EXCEPT ![r] = Dispatched([@ EXCEPT !.at = "end"],
                                           connectionStatus)]
  /\ UNCHANGED <<dispatchVars, connectionStatus, typesOk, adapterCalls, calls,
                 emits, lastCall>>

NextConn ==
  \/ \E r \in Requests : RequestCall(r)
  \/ ConnectCall
  \/ DisconnectCall
  \/ \E k \in 1..(MaxRequests + MaxCalls) : AdapterSettles(k)
  \/ \E r \in Requests : ThenDispatch(r)

SpecConn == InitConn /\ [][NextConn]_vars

\* Every call of the adapter settles and every promise reaction runs; user
\* code makes further calls or makes none.
FairSpecConn ==
  /\ SpecConn
  /\ WF_vars(\E k \in 1..(MaxRequests + MaxCalls) : AdapterSettles(k))
  /\ \A r \in Requests : WF_vars(ThenDispatch(r))

\* ================================================================ claims
Settled == outcome # "pending"

\* C1, as stated: once a request that obtained a transaction has settled,
\* endTransaction was called on it exactly once, to commit or to abort.
C1_ExactlyOneEndTransaction ==
  (Settled /\ transaction) => commitCalls + abortCalls = 1

\* C1, amended: once a request that obtained a transaction has settled,
\* endTransaction was called once to commit and the commit succeeded, or once
\* to abort, or once to commit, which failed, and then once to abort.
C1_EndTransactionPerOutcome ==
  (Settled /\ transaction) =>
    \/ commitCalls = 1 /\ commitStat = "ok" /\ abortCalls = 0
    \/ commitCalls = 0 /\ abortCalls = 1
    \/ commitCalls = 1 /\ commitStat = "failed" /\ abortCalls = 1

\* C1: a request has settled after its committing call failed.
C1_Witness == Settled /\ transaction /\ commitStat = "failed" /\ abortCalls = 1

\* Some step of the pipeline failed.
SomeStepFailed ==
  \/ trigger # NoError
  \/ \E i \in DOMAIN tstat : tstat[i] = "failed"
  \/ \E i \in DOMAIN lstat : lstat[i] = "failed"
  \/ \E t \in DOMAIN ustat : ustat[t] = "failed"
  \/ createStat = "failed"
  \/ commitStat = "failed"
  \/ abortCalls > 0

\* C2: the change event is emitted at most once, only when the committing
\* endTransaction call has succeeded, and never when a step has failed.
C2_EventOnlyAfterCommit ==
  /\ Len(events) <= 1
  /\ Len(events) = 1 => (commitCalls = 1 /\ commitStat = "ok" /\ ~SomeStepFailed)
  /\ SomeStepFailed => Len(events) = 0

\* C2: a request has emitted its change event.
C2_Witness == Len(events) = 1 /\ outcome = "fulfilled" /\ commitStat = "ok"

\* C3: a request with a missing or empty payload is rejected with a bad-request
\* error; beginTransaction, endTransaction, create and update are not called.
C3_InvalidPayloadOpensNothing ==
  (pc # "request" /\ nInput <= 0) =>
    /\ outcome = "rejected"
    /\ reason = CreateRecordsInvalid
    /\ reason.cls = "BadRequestError"
    /\ beginCalls = 0
    /\ ~transaction
    /\ commitCalls = 0 /\ abortCalls = 0
    /\ createCalls = 0
    /\ DOMAIN ustat = {}

\* C3: a request with an empty payload has been rejected.
C3_Witness == pc = "done" /\ nInput = 0 /\ outcome = "rejected"

\* C4, as stated: when the request is rejected because of a failure after the
\* transaction was opened, endTransaction was called once with the triggering
\* error, and the request is rejected with that same error.
C4_AbortThenSameError ==
  (outcome = "rejected" /\ transaction /\ trigger # NoError) =>
    /\ abortCalls = 1
    /\ abortArg = trigger
    /\ reason = trigger

\* C5, as stated: when the aborting endTransaction(error) call fails, by
\* throwing or by a rejected promise, the request is still rejected with the
\* triggering error.
C5_AbortFailureKeepsError ==
  (outcome = "rejected" /\ abortStat \in {"threw", "failed"}) => reason = trigger

\* The check handler has run and transaction.create has not been called:
\* `records` is the batch that went through enforce and checkLinks.
BatchChecked == lstat # <<>> /\ createStat = "none"

\* C6: when enforce throws for a record, or validateRecords throws, create and
\* update are never called and the transaction is aborted; the records create
\* is called with all passed enforce.
C6_NoCreateAfterFailedValidation ==
  /\ trigger.msg \in {"enforce", "validateRecords"} =>
       /\ createCalls = 0 /\ createStat = "none"
       /\ DOMAIN ustat = {}
       /\ commitCalls = 0
       /\ abortCalls = 1 /\ abortArg = trigger
       /\ outcome = "rejected"
  /\ (BatchChecked /\ \E i \in DOMAIN records : ~EnforceOk(records[i])) =>
       /\ pc = "done"
       /\ trigger = EnforceError(FirstNotEnforced(records))
  /\ createStat = "pending" => \A i \in DOMAIN records : EnforceOk(records[i])

\* C6: enforce has thrown for the second record of a batch.
C6_Witness ==
  /\ pc = "done" /\ BatchChecked
  /\ trigger = EnforceError(2)
  /\ abortCalls = 1

\* A record of the checked batch links to a record that does not exist.
DanglingInBatch ==
  enforceLinks /\ BatchChecked /\ \E i \in DOMAIN records : HasDanglingLink(records[i])

C8_EmptyResultIsContractViolation ==
  (createStat = "ok" /\ Len(response) = 0) =>
    /\ outcome = "rejected"
    /\ reason.cls # CreateRecordsInvalid.cls
    /\ DOMAIN ustat = {}
    /\ Len(events) = 0
    /\ abortCalls = 1

\* C9, as stated: when the request has committed, the records it reports are
\* as many as the payload had, and each has a primary key.
C9_CommittedCountIsInputCount ==
  commitStat = "ok" =>
    /\ Len(records) = nInput
    /\ response = records
    /\ \A i \in DOMAIN records : Has(records[i], primaryKey)
    /\ \A e \in DOMAIN events : events[e]["create"]["person"] = records

\* ---- C10
LinkedTypes == {fields[f].link : f \in {g \in DOMAIN fields : HasKey(fields[g], "link")}}

\* The link fields with an inverse that link to type T.
InverseLinksTo(T) ==
  {f \in DOMAIN fields :
     HasKey(fields[f], "link") /\ HasKey(fields[f], "inverse") /\ fields[f].link = T}

\* How often record r holds the key B in its link field f.
TimesHeld(r, f, B) ==
  IF Has(r, f)
  THEN Cardinality({k \in 1..Len(LinkedIds(r, f)) : LinkedIds(r, f)[k] = B})
  ELSE 0

\* The created records that refer to B of type T through field f.
ReferringVia(f, B) == {i \in DOMAIN records : TimesHeld(records[i], f, B) > 0}

Referred(T, B) == \E f \in InverseLinksTo(T) : ReferringVia(f, B) # {}

\* The operations in `updates` for B of type T.
OpsFor(T, B) ==
  IF T \in DOMAIN updates
  THEN {k \in 1..Len(updates[T]) : updates[T][k].id = B}
  ELSE {}

\* How often the key pk stands in the add list of inverse field g of op.
TimesAdded(op, g, pk) ==
  IF g \in DOMAIN op.push
  THEN Cardinality({k \in 1..Len(op.push[g]) : op.push[g][k] = pk})
  ELSE 0

AllIds == TargetIds \cup {NoSuchId}

\* C10, as stated: when the request has committed, every target that a created
\* record refers to through a link with an inverse has exactly one update
\* operation; for an array inverse field its add list holds the primary key of
\* every created record that refers to the target exactly once; no target
\* that no created record refers to has an operation.
C10_OneUpdatePerTarget ==
  commitStat = "ok" =>
    \A T \in LinkedTypes : \A B \in AllIds :
      /\ Referred(T, B) => Cardinality(OpsFor(T, B)) = 1
      /\ ~Referred(T, B) => OpsFor(T, B) = {}
      /\ \A f \in InverseLinksTo(T) :
           linkedIsArrayOf(T, fields[f].inverse) =>
             \A i \in ReferringVia(f, B) : \A k \in OpsFor(T, B) :
               TimesAdded(updates[T][k], fields[f].inverse, records[i][primaryKey]) = 1

\* ---- C11, C12, C20: the updates of the linked records
\* transaction.create resolved and the loop over the created records ran to
\* its end: `updates` is complete.
UpdatesBuilt ==
  /\ createStat = "ok"
  /\ trigger \notin {LengthOfUndefined, CreateRecordsFail, CreateRecordMissingID}

\* The link fields whose inverse field on the linked type is singular.
SingularInverseLinks ==
  {f \in DOMAIN fields :
     /\ HasKey(fields[f], "link") /\ HasKey(fields[f], "inverse")
     /\ ~linkedIsArrayOf(fields[f].link, fields[f].inverse)}

\* C11: when two created records each hold the same existing target in an
\* array link field whose inverse is singular, `updates` has exactly one
\* operation for the linked type and that target, and the operation replaces
\* the inverse field (by the key of one of the two) instead of adding to it.
C11_SharedTargetOneReplace ==
  UpdatesBuilt =>
    \A f \in {g \in SingularInverseLinks : fields[g].isArray} : \A B \in TargetIds :
      Cardinality(ReferringVia(f, B)) >= 2 =>
        /\ Cardinality(OpsFor(fields[f].link, B)) = 1
        /\ \A k \in OpsFor(fields[f].link, B) :
             LET op == updates[fields[f].link][k]
             IN /\ fields[f].inverse \in DOMAIN op.replace
                /\ op.replace[fields[f].inverse] \in
                     {records[i][primaryKey] : i \in ReferringVia(f, B)}
                /\ fields[f].inverse \notin DOMAIN op.push

\* C11: two created records both list animal 1 in `pets`, and the update of
\* the animals is in flight.
C11_Witness ==
  /\ pc = "update" /\ "animal" \in DOMAIN ustat
  /\ Cardinality(ReferringVia("pets", 1)) = 2
  /\ Cardinality(OpsFor("animal", 1)) = 1

\* C12: once the update stage has run, transaction.update was called for
\* exactly the linked types that have at least one operation in `updates`; a
\* change event has an update entry for exactly these types, holding their
\* operations, and no `update` key when there is no such type.
C12_UpdateOnlyTypesWithOps ==
  UpdatesBuilt =>
    /\ \A T \in LinkedTypes :
         T \in DOMAIN ustat <=> (T \in DOMAIN updates /\ Len(updates[T]) > 0)
    /\ \A e \in DOMAIN events :
         /\ "update" \in DOMAIN events[e] <=>
              \E T \in DOMAIN updates : Len(updates[T]) > 0
         /\ \A T \in LinkedTypes :
              ("update" \in DOMAIN events[e] /\ T \in DOMAIN events[e]["update"])
                <=> (T \in DOMAIN updates /\ Len(updates[T]) > 0)
         /\ "update" \in DOMAIN events[e] =>
              \A T \in DOMAIN events[e]["update"] :
                events[e]["update"][T] = updates[T]

\* C12: the event of a request whose links to animals were all null and whose
\* links to groups were not: an entry for the groups, none for the animals.
C12_Witness ==
  /\ Len(events) = 1
  /\ "animal" \in DOMAIN updates /\ Len(updates["animal"]) = 0
  /\ "animal" \notin DOMAIN ustat
  /\ "group" \in DOMAIN ustat
  /\ "group" \in DOMAIN events[1]["update"]

\* The least of a non-empty set of indices.
Lowest(S) == CHOOSE i \in S : \A j \in S : i <= j

\* C20: `updates` is what the loop builds from the records transaction.create
\* returned and from nothing else; when several of them refer to the same
\* target through a link with a singular inverse, the operation for the target
\* replaces the inverse field by the key of the referring record with the
\* lowest index.
C20_LowestIndexWins ==
  UpdatesBuilt =>
    /\ updates = BuildUpdates(response).updates
    /\ \A f \in SingularInverseLinks : \A B \in TargetIds :
         Cardinality(ReferringVia(f, B)) >= 2 =>
           \A k \in OpsFor(fields[f].link, B) :
             /\ fields[f].inverse \in DOMAIN updates[fields[f].link][k].replace
             /\ updates[fields[f].link][k].replace[fields[f].inverse] =
                  records[Lowest(ReferringVia(f, B))][primaryKey]

\* C20: a request with an input transform has committed; both created records
\* list animal 1 in `pets`, and its owner is replaced by the key of the first.
C20_Witness ==
  /\ commitStat = "ok" /\ hasTransform
  /\ ReferringVia("pets", 1) = {1, 2}
  /\ \E k \in OpsFor("animal", 1) :
       updates["animal"][k].replace["owner"] = AssignedId(1)

\* ---- C15, C16, C17
\* The calls of a stage that are still in flight.
Pending(stat) == {i \in DOMAIN stat : stat[i] = "pending"}

\* C15, as stated: create is not called before every transform and every link
\* check has completed, the committing endTransaction is not called before
\* every update call has completed, and the aborting endTransaction is not
\* called while a link check or an update call is still in flight.
C15_StageBarrier ==
  /\ createCalls > 0 => (AllOk(tstat) /\ AllOk(lstat))
  /\ commitCalls > 0 => AllOk(ustat)
  /\ abortCalls > 0 => (Pending(lstat) = {} /\ Pending(ustat) = {})

\* C16, as stated: when the promise of the request has settled, no call the
\* request made on the adapter is still in flight, the aborting
\* endTransaction(error) included.
C16_SettledAfterEveryCall ==
  Settled =>
    /\ abortStat # "pending"
    /\ commitStat # "pending"
    /\ createStat # "pending"
    /\ Pending(ustat) = {}
    /\ Pending(lstat) = {}

\* C17, as stated: no record transaction.create is called with has a
\* denormalized inverse field.
C17_NoDenormalizedFieldCreated ==
  createStat = "pending" =>
    \A i \in DOMAIN records : DOMAIN records[i] \cap DenormFields = {}

\* ---- C13, C14, C18, C19: the connection
\* C13, as stated: every request() made while connectionStatus is 1 settles
\* in the end, by the start of its dispatch or by a connection-failed error.
C13_WaitingRequestSettles ==
  \A r \in Requests : (req[r].at = "wait") ~> (req[r].outcome # "pending")

\* C14, as stated: connectionStatus is 1 only while a call of adapter.connect
\* or adapter.disconnect is in progress; a connect() that failed has left it 0.
C14_StartedOnlyInProgress ==
  /\ connectionStatus = Started => adapterCalls # <<>>
  /\ (lastCall.op = "connect" /\ lastCall.rejected /\ adapterCalls = <<>>) =>
       connectionStatus # Started

\* C18: at most one call of the adapter's connect or disconnect is in flight,
\* and a connect() made while connectionStatus is 1 or 2, or a disconnect()
\* made while it is not 2, rejects and leaves connectionStatus, the adapter,
\* the events and the waiting requests as they are.
C18_RejectedCallChangesNothing ==
  /\ [](Len(adapterCalls) <= 1)
  /\ [][calls' = calls + 1 =>
          /\ (lastCall'.op = "connect" /\ connectionStatus \in {Started, Done}) =>
               /\ lastCall'.rejected
               /\ UNCHANGED <<connectionStatus, adapterCalls, emits, req>>
          /\ (lastCall'.op = "disconnect" /\ connectionStatus # Done) =>
               /\ lastCall'.rejected
               /\ UNCHANGED <<connectionStatus, adapterCalls, emits, req>>]_vars

\* C18: two request() calls on a disconnected instance, one that called
\* connect and one that waits for it, and a connect() of user code that was
\* rejected while the one call of adapter.connect is in flight.
C18_Witness ==
  /\ lastCall = [op |-> "connect", rejected |-> TRUE]
  /\ connectionStatus = Started
  /\ Len(adapterCalls) = 1
  /\ \E r1 \in Requests, r2 \in Requests :
       req[r1].at = "connect" /\ req[r2].at = "wait"

\* C19, as stated: the dispatch of a request starts only while
\* connectionStatus is 2.
C19_DispatchOnlyWhenConnected ==
  \A r \in Requests : req[r].dispatchedAt \in {Null, Done}

\* ---- C21
\* C21, as stated: the promise of a create request fulfils exactly when its
\* transaction was committed: when it has rejected, no committing
\* endTransaction call has succeeded; when it has fulfilled, the commit
\* succeeded and context.response.records are the records transaction.create
\* resolved with.
C21_FulfilsIffCommitted ==
  /\ outcome = "rejected" => commitStat # "ok"
  /\ outcome = "fulfilled" =>
       /\ commitStat = "ok"
       /\ createStat = "ok"
       /\ response = records

====
